---- MODULE Spec2Model ----
(***************************************************************************)
(* Model of the daily P&L collection pipeline:                             *)
(*   polygon_client.fetch_all_active_stock_tickers  (ticker discovery)     *)
(*   polygon_client.fetch_market_snapshots          (snapshot fetcher)     *)
(*   redis_cache.push_daily_pl_to_redis             (cache publisher)      *)
(* Strings are sequences of one-character strings, so that strip(),        *)
(* upper() and substring tests are computed and not assumed.               *)
(***************************************************************************)
EXTENDS Integers, Sequences, FiniteSets, TLC

VARIABLES
    api_key,        \* the api_key argument (a string, "" when missing)
    \* ---- fetch_all_active_stock_tickers
    dpc,            \* position of the coroutine fetch_all_active_stock_tickers
    next_url,       \* the local next_url (Optional[str])
    query,          \* the local query: TRUE while it is params, FALSE once None
    tickers,        \* the local list `tickers`
    pagereqs,       \* the page requests sent so far: [url, params]
    pageresps,      \* the page responses received so far: [status, payload]
    dret,           \* what the call gave its caller
    \* ---- fetch_market_snapshots
    f_tickers,      \* the tickers argument (raw strings)
    batch_size,     \* the batch_size argument
    concurrency,    \* the concurrency argument
    fpc,            \* position of the coroutine fetch_market_snapshots
    client,         \* state of the call's httpx.AsyncClient
    sem,            \* value of the asyncio.Semaphore
    tasks,          \* the chunk tasks: [chunk, st, data, err, out]; out is
                    \* the outcome of the task's request, 0 while there is none
    doneq,          \* the tasks that completed during the collection, in completion order
    nretrieved,     \* how many tasks as_completed has yielded
    results,        \* the local list `results`
    snapreqs,       \* the chunk requests sent so far (their ticker lists)
    fexc,           \* the exception propagating out of the call, "" if none
    fret,           \* what the call gave its caller
    loop,           \* the event loop of asyncio.run
    \* ---- push_daily_pl_to_redis
    redis_url,          \* config.redis_url (Optional[str])
    redis_token,        \* config.redis_token (Optional[str])
    redis_pipeline_size,\* config.redis_pipeline_size
    redis_key_prefix,   \* config.redis_key_prefix
    redis_ttl_seconds,  \* config.redis_ttl_seconds (Optional[int])
    entries,        \* the entries argument (TickerPL records)
    ppc,            \* position of the coroutine push_daily_pl_to_redis
    nbatches,       \* batches whose request has been answered with success
    pipereqs,       \* the pipeline requests sent so far (their command lists)
    inflight,       \* the pipeline request sent and not yet answered
    presp,          \* the status the cache answered with, 0 while there is none
    presps,         \* the outcomes of the requests answered so far, in order
    cache,          \* the cache: key -> [present, val, ttl]
    executed,       \* the commands the cache has executed, in order
    cache0,         \* the cache as it was when the publish was called
    pret,           \* what the call gave its caller
    pcalls,         \* how many calls of the publish the caller has made
    \* ---- the entry point: collect_daily_pl, then push_daily_pl_to_redis
    epc,            \* position of the entry coroutine ("none": no run of
                    \* the entry point, a component is called on its own)
    pl_timezone,    \* config.pl_timezone
    ticker_limit,   \* config.ticker_limit (Optional[int])
    now,            \* the clock, in half days since the run began
    as_of,          \* the local `as_of` of collect_daily_pl
    pl_entries,     \* what collect_daily_pl returned
    eret            \* the error the entry coroutine ended with, if any

fvars == <<f_tickers, batch_size, concurrency, fpc, client, sem, tasks, doneq,
           nretrieved, results, snapreqs, fexc, fret, loop>>

pvars == <<redis_url, redis_token, redis_pipeline_size, redis_key_prefix,
           redis_ttl_seconds, entries, ppc, nbatches, pipereqs, inflight,
           presp, presps, cache, executed, cache0, pret, pcalls>>

dvars == <<dpc, next_url, query, tickers, pagereqs, pageresps, dret>>

evars == <<epc, pl_timezone, ticker_limit, now, as_of, pl_entries, eret>>

vars == <<api_key, dvars, fvars, pvars, evars>>

----------------------------------------------------------------------------
(* Bounds of the model *)

MaxTickers == 3         \* length of the tickers argument
MaxSize == 2            \* largest batch_size / concurrency argument
MaxEntries == 3         \* length of the entries argument
MaxPipeline == 2        \* largest redis_pipeline_size
MaxPages == 3
MaxRecords == 2         \* length of the snapshot list given to the derivation           \* page requests of one discovery the model follows

----------------------------------------------------------------------------
(* Strings *)

RECURSIVE Strip(_)
RECURSIVE UpperStr(_)
RECURSIVE ChunkedFrom(_, _, _)

IsSpace(c) == c = " "

\* str.strip(): leading and trailing whitespace removed
Strip(s) ==
    IF s = <<>> THEN <<>>
    ELSE IF IsSpace(Head(s)) THEN Strip(Tail(s))
    ELSE IF IsSpace(s[Len(s)]) THEN Strip(SubSeq(s, 1, Len(s) - 1))
    ELSE s

UpperChar(c) ==
    CASE c = "a" -> "A"
      [] c = "b" -> "B"
      [] OTHER -> c

\* str.upper()
UpperStr(s) ==
    IF s = <<>> THEN <<>> ELSE <<UpperChar(Head(s))>> \o UpperStr(Tail(s))

Max(a, b) == IF a >= b THEN a ELSE b
Min(a, b) == IF a <= b THEN a ELSE b

\* (mutant) the slice taken with its upper end included
SliceInclusive(items, lo, hi) == SubSeq(items, lo + 1, Min(hi + 1, Len(items)))

\* Python slice items[lo:hi] with 0 <= lo, 0-based, hi clipped to len(items)
Slice(items, lo, hi) == SubSeq(items, lo + 1, Min(hi, Len(items)))

\* _chunked: for idx in range(0, len(items), chunk_size): yield items[idx:idx+chunk_size]
ChunkedFrom(items, chunk_size, idx) ==
    IF idx >= Len(items) THEN <<>>
    ELSE <<Slice(items, idx, idx + chunk_size)>>
             \o ChunkedFrom(items, chunk_size, idx + chunk_size)

Chunked(items, chunk_size) == ChunkedFrom(items, chunk_size, 0)

\* the sequences over S of length at most n
SeqsUpTo(S, n) == UNION { [1..k -> S] : k \in 0..n }


----------------------------------------------------------------------------
(* Values *)

NoneV == [kind |-> "none", val |-> <<>>]
StrV(s) == [kind |-> "str", val |-> s]
ListV(l) == [kind |-> "list", val |-> l]
ErrV(e) == [kind |-> "error", val |-> e]

\* Optional[str]: None or a string; Optional[int]: None or an integer
NoStr == [kind |-> "none", val |-> ""]
SomeStr(x) == [kind |-> "str", val |-> x]
NoInt == [kind |-> "none", val |-> 0]
SomeInt(n) == [kind |-> "int", val |-> n]
\* float | None
NoNum == [kind |-> "none", val |-> 0]
SomeNum(n) == [kind |-> "num", val |-> n]

\* (mutant) only None taken for unset
FalsyNoneOnly(x) == x.kind = "none"

\* `not x` of an Optional[str]: None and "" are falsy
Falsy(x) == x.kind = "none" \/ x.val = ""

\* HTTP outcomes of one request: a status code, or a timeout of the request
Statuses == {200, 400, 500}
Outcomes == Statuses \cup {-1}
IsTimeout(o) == o = -1

\* (mutant) status 400 itself taken for a success
FailureClassAbove(status) == status > 400

\* resp.status_code >= 400
FailureClass(status) == status >= 400

----------------------------------------------------------------------------
(* fetch_all_active_stock_tickers: URLs, requests, pages *)

RECURSIVE AcceptedSymbols(_)

\* a URL is a sequence of parts; a part is the base address or one query
\* parameter
UrlPart(k, v) == [k |-> k, v |-> v]

\* base_url
BaseUrl == <<UrlPart("base", "https://api.polygon.io/v3/reference/tickers")>>

NoUrl == [kind |-> "none", val |-> <<>>]
SomeUrl(u) == [kind |-> "str", val |-> u]

\* `while next_url` / `if next_url`: None and "" are falsy
HasUrl(u) == u.kind = "str" /\ u.val # <<>>

\* "apiKey=" in next_url
HasApiKey(u) == \E i \in DOMAIN u : u[i].k = "apiKey"

\* the params of the first request
FirstParams ==
    { UrlPart("market", "stocks"), UrlPart("active", "true"),
      UrlPart("order", "asc"), UrlPart("limit", "1000"),
      UrlPart("sort", "ticker"), UrlPart("apiKey", api_key) }

\* the client.get of one loop iteration
PageRequest(u, q) ==
    IF u = BaseUrl
    THEN [url |-> u, params |-> IF q THEN FirstParams ELSE {}]
    ELSE IF HasApiKey(u)
         THEN [url |-> u, params |-> {}]
         ELSE [url |-> u, params |-> {UrlPart("apiKey", api_key)}]

\* (mutant) the credential appended to every cursor URL
FollowUpUrlAlwaysKey(cursor) ==
    IF HasUrl(cursor)
    THEN SomeUrl(cursor.val \o <<UrlPart("apiKey", api_key)>>)
    ELSE cursor

\* next_url = payload.get("next_url"), with &apiKey= appended when the
\* cursor URL does not carry it
FollowUpUrl(cursor) ==
    IF HasUrl(cursor) /\ ~HasApiKey(cursor.val)
    THEN SomeUrl(cursor.val \o <<UrlPart("apiKey", api_key)>>)
    ELSE cursor

\* (mutant) the test `and ticker` left out
AcceptedAnyStr(ticker) == ticker.kind = "str"

\* isinstance(ticker, str) and ticker
Accepted(ticker) == ticker.kind = "str" /\ ticker.val # <<>>

\* the symbols one page appends: accepted ones, uppercased, in page order
AcceptedSymbols(items) ==
    IF items = <<>> THEN <<>>
    ELSE (IF Accepted(Head(items).ticker)
          THEN <<UpperStr(Head(items).ticker.val)>>
          ELSE <<>>) \o AcceptedSymbols(Tail(items))

\* payload.get("results") or []
PageResults(payload) == IF payload.has THEN payload.results ELSE <<>>

\* what item.get("ticker") may be: a string, the empty string, no string
ItemA == [ticker |-> StrV(<<"a">>)]
ItemB == [ticker |-> StrV(<<" ", "b">>)]
ItemEmpty == [ticker |-> StrV(<<>>)]
ItemNum == [ticker |-> [kind |-> "num", val |-> <<>>]]

\* the cursors a page may carry: none, "", a cursor URL without the
\* credential, a cursor URL that embeds it
Cursors ==
    { NoUrl, SomeUrl(<<>>),
      SomeUrl(BaseUrl \o <<UrlPart("cursor", "c")>>),
      SomeUrl(BaseUrl \o <<UrlPart("cursor", "c"), UrlPart("apiKey", api_key)>>) }

\* the JSON bodies the reference source may answer a page request with
AllPagePayloads ==
    { [has |-> h, results |-> r, next_url |-> c] :
        h \in {TRUE}, r \in { <<ItemA>>, <<ItemEmpty, ItemB>>, <<ItemNum, ItemA>> },
        c \in Cursors }
    \cup { [has |-> FALSE, results |-> <<>>, next_url |-> c] : c \in Cursors }

\* the bodies the source answers with in a run of the entry point, by the
\* number of the page asked for: a listing of no symbol, of two symbols on
\* two pages, or of three symbols on three pages
EntryPagePayloads ==
    LET cursor == SomeUrl(BaseUrl \o <<UrlPart("cursor", "c")>>)
    IN  CASE Len(pagereqs) = 1 ->
               { [has |-> FALSE, results |-> <<>>, next_url |-> NoUrl],
                 [has |-> TRUE, results |-> <<ItemA>>, next_url |-> cursor] }
          [] Len(pagereqs) = 2 ->
               { [has |-> TRUE, results |-> <<ItemEmpty, ItemB>>, next_url |-> NoUrl],
                 [has |-> TRUE, results |-> <<ItemEmpty, ItemB>>, next_url |-> cursor] }
          [] OTHER ->
               { [has |-> TRUE, results |-> <<ItemNum, ItemA>>, next_url |-> NoUrl] }

PagePayloads == IF epc = "none" THEN AllPagePayloads ELSE EntryPagePayloads

----------------------------------------------------------------------------
(* fetch_all_active_stock_tickers: the coroutine *)

\* if not api_key: raise ValueError
DiscoverNoKey ==
    /\ dpc = "init"
    /\ api_key = ""
    /\ dpc' = "raised"
    /\ dret' = ErrV("ValueError")
    /\ UNCHANGED <<fvars, pvars, api_key, evars, next_url, query, tickers, pagereqs,
                   pageresps>>

\* the client is opened; next_url = base_url, query = params
DiscoverBegin ==
    /\ dpc = "init"
    /\ api_key # ""
    /\ next_url' = SomeUrl(BaseUrl)
    /\ query' = TRUE
    /\ dpc' = "loop"
    /\ UNCHANGED <<fvars, pvars, api_key, evars, tickers, pagereqs, pageresps, dret>>

\* one page request goes out (the model follows MaxPages of them)
PageSend ==
    /\ dpc = "loop"
    /\ HasUrl(next_url)
    /\ Len(pagereqs) < MaxPages
    /\ pagereqs' = Append(pagereqs, PageRequest(next_url.val, query))
    /\ dpc' = "await"
    /\ UNCHANGED <<fvars, pvars, api_key, evars, next_url, query, tickers, pageresps,
                   dret>>

\* the page request times out: the exception leaves the call
PageTimeout ==
    /\ dpc = "await"
    /\ pageresps' = Append(pageresps, [status |-> -1, payload |-> <<>>])
    /\ dpc' = "raised"
    /\ dret' = ErrV("TimeoutException")
    /\ UNCHANGED <<fvars, pvars, api_key, evars, next_url, query, tickers, pagereqs>>

\* the page response arrives: a failure-class status raises, else the
\* page's symbols are appended, the cursor is taken and the loop goes on
\* or, without a cursor, the call returns
PageResponse ==
    /\ dpc = "await"
    /\ \E st \in Statuses, payload \in PagePayloads :
          /\ pageresps' = Append(pageresps, [status |-> st, payload |-> payload])
          /\ IF FailureClass(st)
             THEN /\ dpc' = "raised"
                  /\ dret' = ErrV("PolygonApiError")
                  /\ UNCHANGED <<next_url, query, tickers>>
             ELSE /\ tickers' = tickers \o AcceptedSymbols(PageResults(payload))
                  /\ next_url' = FollowUpUrl(payload.next_url)
                  /\ query' = FALSE
                  /\ IF HasUrl(FollowUpUrl(payload.next_url))
                     THEN dpc' = "loop" /\ UNCHANGED dret
                     ELSE /\ dpc' = "returned"
                          /\ dret' = ListV(tickers
                                            \o AcceptedSymbols(PageResults(payload)))
    /\ UNCHANGED <<fvars, pvars, api_key, evars, pagereqs>>

----------------------------------------------------------------------------
(* fetch_market_snapshots: normalisation and the snapshot source *)

RECURSIVE NormalizeTickers(_)
RECURSIVE NormalizeKeepBlank(_)

\* (mutant) the filter `if ticker.strip()` left out
NormalizeKeepBlank(ts) ==
    IF ts = <<>> THEN <<>>
    ELSE <<UpperStr(Strip(Head(ts)))>> \o NormalizeKeepBlank(Tail(ts))

\* [ticker.strip().upper() for ticker in tickers if ticker.strip()]
NormalizeTickers(ts) ==
    IF ts = <<>> THEN <<>>
    ELSE IF Strip(Head(ts)) # <<>>
         THEN <<UpperStr(Strip(Head(ts)))>> \o NormalizeTickers(Tail(ts))
         ELSE NormalizeTickers(Tail(ts))

\* asyncio.Semaphore(max(1, concurrency))
SemaphoreSize(c) == Max(1, c)

\* _chunked(tickers, max(1, batch_size))
SnapshotChunks(ts, b) == Chunked(ts, Max(1, b))

\* one raw per-ticker object of the snapshot response: the ticker asked
\* for, a daily change, a daily change percent that is no number, and a
\* minute bar with its close
SnapRecord(t) ==
    [ticker |-> StrV(t),
     todaysChange |-> SomeNum(1),
     todaysChangePerc |-> StrV(<<"b", "a", "d">>),
     min |-> [kind |-> "dict", c |-> SomeNum(2)]]

\* the JSON bodies the snapshot source may answer a chunk with: the key
\* "tickers" missing, or one record per requested ticker
PayloadChoices(chunk) ==
    { [has |-> FALSE, tickers |-> <<>>],
      [has |-> TRUE, tickers |-> [i \in 1..Len(chunk) |-> SnapRecord(chunk[i])]] }

\* payload.get("tickers") or []
PayloadData(p) == IF p.has THEN p.tickers ELSE <<>>

TaskIds == DOMAIN tasks
Pending(t) == tasks[t].st \in {"new", "gate", "inflight"}
InFlight == { t \in TaskIds : tasks[t].st = "inflight" }
AtGate == { t \in TaskIds : tasks[t].st = "gate" }
AllStarted == \A t \in TaskIds : tasks[t].st # "new"

\* (mutant) a semaphore that never blocks
CanAcquireAlways(s) == TRUE

\* Semaphore.acquire without waiting: the semaphore is not locked
CanAcquire(s) == s > 0

\* Semaphore.release has a slot for the first waiter: the waiter runs
\* before any other callback of the loop
HandoffPending == CanAcquire(sem) /\ AtGate # {}

\* (mutant) a slot that is never given back
ReleaseNever(s) == s

\* Semaphore.release, at the exit of `async with semaphore`
Release(s) == s + 1

SetSt(t, st) == [tasks EXCEPT ![t].st = st]

\* task t ends with exception e
Raise(t, e) == [tasks EXCEPT ![t].st = "failed", ![t].err = e]

----------------------------------------------------------------------------
(* fetch_market_snapshots: the coroutine and its chunk tasks *)

\* if not api_key: raise ValueError
FetchNoKey ==
    /\ fpc = "init"
    /\ api_key = ""
    /\ fpc' = "raised"
    /\ fret' = ErrV("ValueError")
    /\ UNCHANGED <<dvars, pvars, api_key, evars, f_tickers, batch_size, concurrency, client, sem,
                   tasks, doneq, nretrieved, results, snapreqs, fexc, loop>>

\* if not tickers: return []
FetchEmpty ==
    /\ fpc = "init"
    /\ api_key # ""
    /\ NormalizeTickers(f_tickers) = <<>>
    /\ fpc' = "returned"
    /\ fret' = ListV(<<>>)
    /\ UNCHANGED <<dvars, pvars, api_key, evars, f_tickers, batch_size, concurrency, client, sem,
                   tasks, doneq, nretrieved, results, snapreqs, fexc, loop>>

\* the client is opened, the semaphore and one task per chunk are created,
\* and the coroutine suspends in as_completed
FetchStart ==
    /\ fpc = "init"
    /\ api_key # ""
    /\ NormalizeTickers(f_tickers) # <<>>
    /\ LET chunks == SnapshotChunks(NormalizeTickers(f_tickers), batch_size)
       IN tasks' = [i \in 1..Len(chunks) |->
                       [chunk |-> chunks[i], st |-> "new", data |-> <<>>,
                        err |-> "", out |-> 0]]
    /\ client' = "open"
    /\ sem' = SemaphoreSize(concurrency)
    /\ fpc' = "collect"
    /\ UNCHANGED <<dvars, pvars, api_key, evars, f_tickers, batch_size, concurrency, doneq,
                   nretrieved, results, snapreqs, fexc, fret, loop>>

\* client.get of task t, the semaphore held: the request goes out, or the
\* client is already closed and get raises at once (the slot is released)
SendRequest(t) ==
    IF client = "open"
    THEN /\ tasks' = SetSt(t, "inflight")
         /\ snapreqs' = Append(snapreqs, tasks[t].chunk)
         /\ sem' = sem - 1
         /\ UNCHANGED doneq
    ELSE /\ tasks' = Raise(t, "RuntimeError")
         /\ UNCHANGED <<snapreqs, sem, doneq>>

\* the first step of fetch_chunk, tasks in creation order: up to client.get
\* if the semaphore is free, else up to the wait at the semaphore
TaskStart(t) ==
    /\ loop = "running"
    /\ t \in TaskIds
    /\ tasks[t].st = "new"
    /\ \A u \in TaskIds : u < t => tasks[u].st # "new"
    /\ IF CanAcquire(sem)
       THEN SendRequest(t)
       ELSE /\ tasks' = SetSt(t, "gate")
            /\ UNCHANGED <<snapreqs, sem, doneq>>
    /\ UNCHANGED <<dvars, pvars, api_key, evars, f_tickers, batch_size, concurrency, fpc, client,
                   nretrieved, results, fexc, fret, loop>>

\* a released slot goes to the first waiter, which goes on to client.get
GateAdmit(t) ==
    /\ loop = "running"
    /\ t \in AtGate
    /\ \A u \in AtGate : t <= u
    /\ AllStarted
    /\ CanAcquire(sem)
    /\ SendRequest(t)
    /\ UNCHANGED <<dvars, pvars, api_key, evars, f_tickers, batch_size, concurrency, fpc, client,
                   nretrieved, results, fexc, fret, loop>>

\* the response (or timeout) of task t's request: the semaphore is released,
\* then the status decides between the task's result and PolygonApiError
ChunkResponse(t) ==
    /\ loop = "running"
    /\ t \in InFlight
    /\ AllStarted
    /\ ~HandoffPending
    /\ \E o \in Outcomes, p \in PayloadChoices(tasks[t].chunk) :
          tasks' = IF IsTimeout(o)
                   THEN [Raise(t, "TimeoutException") EXCEPT ![t].out = o]
                   ELSE IF FailureClass(o)
                   THEN [Raise(t, "PolygonApiError") EXCEPT ![t].out = o]
                   ELSE [tasks EXCEPT ![t].st = "ok", ![t].out = o,
                                      ![t].data = PayloadData(p)]
    /\ sem' = Release(sem)
    /\ doneq' = IF fpc = "collect" THEN Append(doneq, t) ELSE doneq
    /\ UNCHANGED <<dvars, pvars, api_key, evars, f_tickers, batch_size, concurrency, fpc, client,
                   nretrieved, results, snapreqs, fexc, fret, loop>>

\* (mutant) the tasks awaited in submission order, whatever has completed
NextDoneBySubmission == nretrieved + 1

\* the task as_completed hands out next: doneq holds the tasks in the order
\* they completed, the first nretrieved of them already handed out
NextDone == doneq[nretrieved + 1]

\* for task in as_completed(tasks): results.extend(await task), on a task
\* that returned; after the last one the client is closed
CollectOk ==
    /\ loop = "running"
    /\ fpc = "collect"
    /\ nretrieved < Len(doneq)
    /\ ~HandoffPending
    /\ tasks[NextDone].st = "ok"
    /\ results' = results \o tasks[NextDone].data
    /\ nretrieved' = nretrieved + 1
    /\ IF nretrieved + 1 = Len(tasks)
       THEN fpc' = "closing_ok" /\ client' = "closed"
       ELSE UNCHANGED <<fpc, client>>
    /\ UNCHANGED <<dvars, pvars, api_key, evars, f_tickers, batch_size, concurrency, sem, tasks,
                   doneq, snapreqs, fexc, fret, loop>>

\* await task on a task that raised: the exception leaves the loop (the
\* as_completed iterator is dropped) and the async with block, which closes
\* the client
CollectFailed ==
    /\ loop = "running"
    /\ fpc = "collect"
    /\ nretrieved < Len(doneq)
    /\ ~HandoffPending
    /\ tasks[NextDone].st = "failed"
    /\ fpc' = "closing_err"
    /\ client' = "closed"
    /\ fexc' = tasks[NextDone].err
    /\ doneq' = <<>>
    /\ UNCHANGED <<dvars, pvars, api_key, evars, f_tickers, batch_size, concurrency, sem, tasks,
                   nretrieved, results, snapreqs, fret, loop>>

\* the client's close is done: return results, or the exception propagates
FetchClose ==
    /\ loop = "running"
    /\ fpc \in {"closing_ok", "closing_err"}
    /\ ~HandoffPending
    /\ IF fpc = "closing_ok"
       THEN fpc' = "returned" /\ fret' = ListV(results)
       ELSE fpc' = "raised" /\ fret' = ErrV(fexc)
    /\ UNCHANGED <<dvars, pvars, api_key, evars, f_tickers, batch_size, concurrency, client, sem,
                   tasks, doneq, nretrieved, results, snapreqs, fexc, loop>>

\* asyncio.run, once its coroutine has ended: the tasks still pending are
\* cancelled and the loop is closed
LoopTeardown ==
    /\ loop = "running"
    /\ fpc \in {"returned", "raised"}
    /\ tasks' = [t \in TaskIds |->
                    IF Pending(t) THEN [tasks[t] EXCEPT !.st = "cancelled"]
                    ELSE tasks[t]]
    /\ sem' = sem + Cardinality(InFlight)
    /\ loop' = "closed"
    /\ UNCHANGED <<dvars, pvars, api_key, evars, f_tickers, batch_size, concurrency, fpc, client,
                   doneq, nretrieved, results, snapreqs, fexc, fret>>

----------------------------------------------------------------------------
(* push_daily_pl_to_redis: keys, values, commands and the cache *)

RECURSIVE BatchCommands(_, _, _)
RECURSIVE Execute(_, _)

\* (mutant) the key built without the ticker of the entry
CacheKeyNoTicker(prefix, ticker) == <<prefix, ":">> \o <<"A">>

\* f"{config.redis_key_prefix}:{ticker_pl.ticker}"
CacheKey(prefix, ticker) == <<prefix, ":">> \o ticker

\* a float | None field as json.dumps writes it
JsonNum(x) == IF x.kind = "none" THEN "null" ELSE ToString(x.val)

\* json.dumps(ticker_pl.to_dict(), separators=(",", ":"))
Serialize(e) ==
    <<"ticker", e.ticker, "daily_pl", JsonNum(e.daily_pl),
      "daily_pl_percent", JsonNum(e.daily_pl_percent),
      "min_close", JsonNum(e.min_close), "date", e.date>>

\* (mutant) the record added to what the key holds
SetCmdAppend(key, value) == <<"APPEND", key, value>>

SetCmd(key, value) == <<"SET", key, value>>
ExpireCmd(key, seconds) == <<"EXPIRE", key, <<ToString(seconds)>>>>

\* (mutant) EXPIRE appended whether or not a TTL is configured
EntryCommandsAlwaysExpire(prefix, ttl, e) ==
    <<SetCmd(CacheKey(prefix, e.ticker), Serialize(e)),
      ExpireCmd(CacheKey(prefix, e.ticker), ttl.val)>>

\* the commands of one entry: SET, then EXPIRE when a TTL is configured
EntryCommands(prefix, ttl, e) ==
    <<SetCmd(CacheKey(prefix, e.ticker), Serialize(e))>>
      \o (IF ttl.kind # "none"
          THEN <<ExpireCmd(CacheKey(prefix, e.ticker), ttl.val)>>
          ELSE <<>>)

\* the flat command list of one batch
BatchCommands(prefix, ttl, batch) ==
    IF batch = <<>> THEN <<>>
    ELSE EntryCommands(prefix, ttl, Head(batch))
           \o BatchCommands(prefix, ttl, Tail(batch))

\* pipeline_size = max(1, config.redis_pipeline_size)
PipelineSize(n) == Max(1, n)

\* (mutant) the batches posted last one first
PublishBatchesLastFirst ==
    LET bs == Chunked(entries, PipelineSize(redis_pipeline_size))
    IN  [i \in 1..Len(bs) |-> bs[Len(bs) + 1 - i]]

\* _chunked(entries, pipeline_size)
PublishBatches == Chunked(entries, PipelineSize(redis_pipeline_size))

Absent == [present |-> FALSE, val |-> <<>>, ttl |-> <<>>]

\* the cache executes one command: SET stores the value and drops any expiry
\* of the key, APPEND adds to the value the key holds, EXPIRE sets the
\* expiry of a key that exists
ExecuteOne(c, cmd) ==
    IF cmd[1] = "SET"
    THEN [c EXCEPT ![cmd[2]] = [present |-> TRUE, val |-> cmd[3], ttl |-> <<>>]]
    ELSE IF cmd[1] = "APPEND"
    THEN [c EXCEPT ![cmd[2]] = [present |-> TRUE, val |-> c[cmd[2]].val \o cmd[3],
                                ttl |-> c[cmd[2]].ttl]]
    ELSE IF c[cmd[2]].present
         THEN [c EXCEPT ![cmd[2]].ttl = cmd[3]]
         ELSE c

\* the cache executes a command list in the submitted order
Execute(c, cmds) ==
    IF cmds = <<>> THEN c ELSE Execute(ExecuteOne(c, Head(cmds)), Tail(cmds))

----------------------------------------------------------------------------
(* push_daily_pl_to_redis: the coroutine and the cache endpoint *)

\* if not config.redis_url or not config.redis_token: return
PublishDisabled ==
    /\ ppc = "init"
    /\ Falsy(redis_url) \/ Falsy(redis_token)
    /\ ppc' = "returned"
    /\ pret' = "ok"
    /\ UNCHANGED <<dvars, fvars, api_key, evars, pcalls, redis_url, redis_token, redis_pipeline_size,
                   redis_key_prefix, redis_ttl_seconds, entries, nbatches,
                   pipereqs, inflight, presp, presps, cache, executed, cache0>>

\* if not entries: return
PublishEmpty ==
    /\ ppc = "init"
    /\ ~(Falsy(redis_url) \/ Falsy(redis_token))
    /\ entries = <<>>
    /\ ppc' = "returned"
    /\ pret' = "ok"
    /\ UNCHANGED <<dvars, fvars, api_key, evars, pcalls, redis_url, redis_token, redis_pipeline_size,
                   redis_key_prefix, redis_ttl_seconds, entries, nbatches,
                   pipereqs, inflight, presp, presps, cache, executed, cache0>>

\* the client is opened and the loop over the batches is entered
PublishBegin ==
    /\ ppc = "init"
    /\ ~(Falsy(redis_url) \/ Falsy(redis_token))
    /\ entries # <<>>
    /\ ppc' = "send"
    /\ UNCHANGED <<dvars, fvars, api_key, evars, pcalls, redis_url, redis_token, redis_pipeline_size,
                   redis_key_prefix, redis_ttl_seconds, entries, nbatches,
                   pipereqs, inflight, presp, presps, cache, executed, cache0,
                   pret>>

\* the command list of the next batch is built and posted
PublishSend ==
    /\ ppc = "send"
    /\ LET cmds == BatchCommands(redis_key_prefix, redis_ttl_seconds,
                                 PublishBatches[nbatches + 1])
       IN /\ pipereqs' = Append(pipereqs, cmds)
          /\ inflight' = <<cmds>>
    /\ ppc' = "await"
    /\ UNCHANGED <<dvars, fvars, api_key, evars, pcalls, redis_url, redis_token, redis_pipeline_size,
                   redis_key_prefix, redis_ttl_seconds, entries, nbatches,
                   presp, presps, cache, executed, cache0, pret>>

\* the cache endpoint serves the request in flight: with a success status
\* it has executed every command, otherwise (failure-class status, or no
\* answer in time) some prefix of them
PipelineServe ==
    /\ ppc = "await"
    /\ presp = 0
    /\ \E o \in Outcomes, k \in 0..Len(inflight[1]) :
          /\ (~IsTimeout(o) /\ o < 400) => k = Len(inflight[1])
          /\ presp' = o
          /\ executed' = executed \o SubSeq(inflight[1], 1, k)
          /\ cache' = Execute(cache, SubSeq(inflight[1], 1, k))
    /\ UNCHANGED <<dvars, fvars, api_key, evars, pcalls, redis_url, redis_token, redis_pipeline_size,
                   redis_key_prefix, redis_ttl_seconds, entries, ppc, nbatches,
                   pipereqs, inflight, presps, cache0, pret>>

\* the response arrives: failure-class status raises RedisCacheError, a
\* timeout raises out of client.post, else the loop goes on or ends
PublishResponse ==
    /\ ppc = "await"
    /\ presp # 0
    /\ inflight' = <<>>
    /\ presp' = 0
    /\ presps' = Append(presps, presp)
    /\ IF IsTimeout(presp)
       THEN ppc' = "raised" /\ pret' = "TimeoutException" /\ UNCHANGED nbatches
       ELSE IF FailureClass(presp)
       THEN ppc' = "raised" /\ pret' = "RedisCacheError" /\ UNCHANGED nbatches
       ELSE /\ nbatches' = nbatches + 1
            /\ IF nbatches + 1 = Len(PublishBatches)
               THEN ppc' = "returned" /\ pret' = "ok"
               ELSE ppc' = "send" /\ UNCHANGED pret
    /\ UNCHANGED <<dvars, fvars, api_key, evars, pcalls, redis_url, redis_token, redis_pipeline_size,
                   redis_key_prefix, redis_ttl_seconds, entries, pipereqs,
                   cache, executed, cache0>>

\* the caller runs the publish once more with the same entries, prefix and
\* TTL, after a first run that returned
PublishAgain ==
    /\ ppc = "returned"
    /\ pcalls = 1
    /\ pcalls' = 2
    /\ ppc' = "init"
    /\ cache0' = cache
    /\ nbatches' = 0
    /\ pipereqs' = <<>>
    /\ inflight' = <<>>
    /\ presp' = 0
    /\ presps' = <<>>
    /\ executed' = <<>>
    /\ pret' = ""
    /\ UNCHANGED <<dvars, fvars, api_key, evars, redis_url, redis_token, redis_pipeline_size,
                   redis_key_prefix, redis_ttl_seconds, entries, cache>>

----------------------------------------------------------------------------
(* collect_daily_pl: the date, the truncation and the derivation *)

\* the zones the zone database knows
KnownZones == { "America/New_York", "Asia/Tokyo" }

\* ZoneInfo(config.pl_timezone), ZoneInfo("America/New_York") when that raises
ResolveZone(z) == IF z \in KnownZones THEN z ELSE "America/New_York"

\* the day of January 2024 it is in zone z at instant t; instant 0 is
\* 18:00 of January 1 in New York, which is 08:00 of January 2 in Tokyo, and
\* the clock counts half days
LocalDay(z, t) ==
    IF z = "Asia/Tokyo" THEN 2 + (t \div 2) ELSE 1 + ((t + 1) \div 2)

\* strftime("%Y-%m-%d") of a day of January 2024
FormatDate(d) ==
    IF d < 10 THEN "2024-01-0" \o ToString(d) ELSE "2024-01-" \o ToString(d)

\* datetime.now(tz).strftime("%Y-%m-%d")
DateNow(z, t) == FormatDate(LocalDay(ResolveZone(z), t))

\* (mutant) the limit left out
TruncateNone(ts, limit) == ts

\* tickers[: config.ticker_limit] when a limit is configured
Truncate(ts, limit) ==
    IF limit.kind = "none" THEN ts ELSE Slice(ts, 0, limit.val)

DigitValue(c) ==
    CASE c = "0" -> 0 [] c = "1" -> 1 [] c = "2" -> 2 [] c = "3" -> 3
      [] c = "4" -> 4 [] c = "5" -> 5 [] c = "6" -> 6 [] c = "7" -> 7
      [] c = "8" -> 8 [] c = "9" -> 9 [] OTHER -> -1

\* float(s) accepts the string: a decimal numeral, whitespace around it ignored
SpellsNumber(s) ==
    /\ Strip(s) # <<>>
    /\ \A i \in DOMAIN Strip(s) : DigitValue(Strip(s)[i]) >= 0

RECURSIVE NumeralValue(_)
NumeralValue(t) ==
    IF t = <<>> THEN 0
    ELSE 10 * NumeralValue(SubSeq(t, 1, Len(t) - 1)) + DigitValue(t[Len(t)])

\* float(value) raised an exception that _to_float does not catch
Uncaught == [kind |-> "raise", val |-> 0]

\* (mutant) _to_float catching TypeError only
ToFloatTypeErrorOnly(v) ==
    CASE v.kind = "num" -> SomeNum(v.val)
      [] v.kind = "bool" -> SomeNum(IF v.val THEN 1 ELSE 0)
      [] v.kind = "str" -> IF SpellsNumber(v.val)
                           THEN SomeNum(NumeralValue(Strip(v.val)))
                           ELSE Uncaught
      [] v.kind = "bigint" -> Uncaught
      [] OTHER -> NoNum

\* _to_float: float(value), None on TypeError (None, a dict, a list) and on
\* ValueError (a string that spells no number); an integer beyond the range
\* of float raises OverflowError, which is not caught
ToFloat(v) ==
    CASE v.kind = "num" -> SomeNum(v.val)
      [] v.kind = "bool" -> SomeNum(IF v.val THEN 1 ELSE 0)
      [] v.kind = "str" -> IF SpellsNumber(v.val)
                           THEN SomeNum(NumeralValue(Strip(v.val)))
                           ELSE NoNum
      [] v.kind = "bigint" -> Uncaught
      [] OTHER -> NoNum

\* isinstance(ticker, str) and ticker
HasTicker(snap) == snap.ticker.kind = "str" /\ snap.ticker.val # <<>>

\* minute_close: _to_float(minute_block.get("c")) if the block is a dict
MinuteClose(snap) ==
    IF snap.min.kind = "dict" THEN ToFloat(snap.min.c) ELSE NoNum

\* the TickerPL of one snapshot record that has a ticker
DeriveOne(snap, date) ==
    [ticker |-> UpperStr(snap.ticker.val),
     daily_pl |-> ToFloat(snap.todaysChange),
     daily_pl_percent |-> ToFloat(snap.todaysChangePerc),
     min_close |-> MinuteClose(snap),
     date |-> date]

\* a conversion of the record raises
DeriveRaises(snap) ==
    \/ ToFloat(snap.todaysChange).kind = "raise"
    \/ ToFloat(snap.todaysChangePerc).kind = "raise"
    \/ MinuteClose(snap).kind = "raise"

\* the loop over the snapshots: records without a ticker are skipped, the
\* others are appended in order; an uncaught exception ends the loop
RECURSIVE DeriveFrom(_, _, _)
DeriveFrom(snaps, date, acc) ==
    IF snaps = <<>> THEN ListV(acc)
    ELSE IF ~HasTicker(Head(snaps)) THEN DeriveFrom(Tail(snaps), date, acc)
    ELSE IF DeriveRaises(Head(snaps)) THEN ErrV("OverflowError")
    ELSE DeriveFrom(Tail(snaps), date, Append(acc, DeriveOne(Head(snaps), date)))

Derive(snaps, date) == DeriveFrom(snaps, date, <<>>)

----------------------------------------------------------------------------
(* The entry point: collect_daily_pl, then push_daily_pl_to_redis, under
   asyncio.run *)

\* get_config without POLYGON_API_KEY: RuntimeError, nothing is called
EntryConfigError ==
    /\ epc = "start"
    /\ api_key = ""
    /\ epc' = "failed"
    /\ eret' = ErrV("RuntimeError")
    /\ UNCHANGED <<api_key, dvars, fvars, pvars, pl_timezone, ticker_limit, now,
                   as_of, pl_entries>>

\* collect_daily_pl up to its first await: the date is taken, discovery is
\* called
CollectBegin ==
    /\ epc = "start"
    /\ api_key # ""
    /\ as_of' = DateNow(pl_timezone, now)
    /\ dpc' = "init"
    /\ epc' = "discover"
    /\ UNCHANGED <<api_key, fvars, pvars, next_url, query, tickers, pagereqs,
                   pageresps, dret, pl_timezone, ticker_limit, now, pl_entries,
                   eret>>

\* discovery raised: the exception leaves collect_daily_pl and the entry
\* coroutine
CollectDiscoverFailed ==
    /\ epc = "discover"
    /\ dpc = "raised"
    /\ epc' = "failed"
    /\ eret' = dret
    /\ UNCHANGED <<api_key, dvars, fvars, pvars, pl_timezone, ticker_limit, now,
                   as_of, pl_entries>>

\* discovery returned: the list is cut to the limit and the snapshot fetch
\* is called
CollectFetch ==
    /\ epc = "discover"
    /\ dpc = "returned"
    /\ f_tickers' = Truncate(dret.val, ticker_limit)
    /\ fpc' = "init"
    /\ epc' = "fetch"
    /\ UNCHANGED <<api_key, dvars, pvars, batch_size, concurrency, client, sem,
                   tasks, doneq, nretrieved, results, snapreqs, fexc, fret, loop,
                   pl_timezone, ticker_limit, now, as_of, pl_entries, eret>>

\* (mutant) a failed fetch taken for an empty one: the publish is called
CollectFetchFailedSwallowed ==
    /\ epc = "fetch"
    /\ fpc = "raised"
    /\ pl_entries' = <<>>
    /\ entries' = <<>>
    /\ ppc' = "init"
    /\ pcalls' = 1
    /\ cache0' = cache
    /\ epc' = "publish"
    /\ UNCHANGED <<api_key, dvars, fvars, redis_url, redis_token,
                   redis_pipeline_size, redis_key_prefix, redis_ttl_seconds,
                   nbatches, pipereqs, inflight, presp, presps, cache, executed,
                   pret, pl_timezone, ticker_limit, now, as_of, eret>>

\* the snapshot fetch raised: the exception leaves collect_daily_pl and
\* the entry coroutine
CollectFetchFailed ==
    /\ epc = "fetch"
    /\ fpc = "raised"
    /\ epc' = "failed"
    /\ eret' = fret
    /\ UNCHANGED <<api_key, dvars, fvars, pvars, pl_timezone, ticker_limit, now,
                   as_of, pl_entries>>

\* (mutant) the date read again when the entries are built
CollectDeriveDateNow ==
    /\ epc = "fetch"
    /\ fpc = "returned"
    /\ LET got == Derive(fret.val, DateNow(pl_timezone, now))
       IN  IF got.kind = "error"
           THEN /\ epc' = "failed"
                /\ eret' = got
                /\ UNCHANGED <<pl_entries, entries, ppc, pcalls, cache0>>
           ELSE /\ pl_entries' = got.val
                /\ entries' = got.val
                /\ ppc' = "init"
                /\ pcalls' = 1
                /\ cache0' = cache
                /\ epc' = "publish"
                /\ UNCHANGED eret
    /\ UNCHANGED <<api_key, dvars, fvars, redis_url, redis_token,
                   redis_pipeline_size, redis_key_prefix, redis_ttl_seconds,
                   nbatches, pipereqs, inflight, presp, presps, cache, executed,
                   pret, pl_timezone, ticker_limit, now, as_of>>

\* the snapshot fetch returned: the entries are derived, collect_daily_pl
\* returns them and the entry coroutine calls the publish with them; an
\* exception of the derivation leaves the entry coroutine
CollectDerive ==
    /\ epc = "fetch"
    /\ fpc = "returned"
    /\ LET got == Derive(fret.val, as_of)
       IN  IF got.kind = "error"
           THEN /\ epc' = "failed"
                /\ eret' = got
                /\ UNCHANGED <<pl_entries, entries, ppc, pcalls, cache0>>
           ELSE /\ pl_entries' = got.val
                /\ entries' = got.val
                /\ ppc' = "init"
                /\ pcalls' = 1
                /\ cache0' = cache
                /\ epc' = "publish"
                /\ UNCHANGED eret
    /\ UNCHANGED <<api_key, dvars, fvars, redis_url, redis_token,
                   redis_pipeline_size, redis_key_prefix, redis_ttl_seconds,
                   nbatches, pipereqs, inflight, presp, presps, cache, executed,
                   pret, pl_timezone, ticker_limit, now, as_of>>

\* the publish ended: the entry coroutine returns, or the exception of the
\* publish leaves it
EntryEnd ==
    /\ epc = "publish"
    /\ ppc \in {"returned", "raised"}
    /\ IF ppc = "returned"
       THEN epc' = "done" /\ UNCHANGED eret
       ELSE epc' = "failed" /\ eret' = ErrV(pret)
    /\ UNCHANGED <<api_key, dvars, fvars, pvars, pl_timezone, ticker_limit, now,
                   as_of, pl_entries>>

\* asyncio.run, once the entry coroutine has ended: the tasks still pending
\* are cancelled and the loop is closed
EntryTeardown ==
    /\ epc \in {"done", "failed"}
    /\ loop = "running"
    /\ tasks' = [t \in TaskIds |->
                    IF Pending(t) THEN [tasks[t] EXCEPT !.st = "cancelled"]
                    ELSE tasks[t]]
    /\ sem' = sem + Cardinality(InFlight)
    /\ loop' = "closed"
    /\ UNCHANGED <<api_key, dvars, pvars, evars, f_tickers, batch_size,
                   concurrency, fpc, client, doneq, nretrieved, results, snapreqs,
                   fexc, fret>>

\* time passes while the run is under way: half a day at most
Tick ==
    /\ epc \in {"start", "discover", "fetch", "publish"}
    /\ now = 0
    /\ now' = 1
    /\ UNCHANGED <<api_key, dvars, fvars, pvars, epc, pl_timezone, ticker_limit,
                   as_of, pl_entries, eret>>

----------------------------------------------------------------------------
(* The inputs of the model and the state before a call *)

RawTickers == { <<"a">>, <<" ", "b", " ">>, <<" ">>, <<>> }

FetchIdle ==
    /\ fpc = "init"
    /\ client = "none"
    /\ sem = 0
    /\ tasks = <<>>
    /\ doneq = <<>>
    /\ nretrieved = 0
    /\ results = <<>>
    /\ snapreqs = <<>>
    /\ fexc = ""
    /\ fret = NoneV
    /\ loop = "running"

TickerNames == { <<"A">>, <<"B">> }

AsOfDate == "2024-01-02"

\* the TickerPL records of the model
TickerPLs ==
    { [ticker |-> t, daily_pl |-> v, daily_pl_percent |-> NoNum,
       min_close |-> NoNum, date |-> AsOfDate] :
         t \in TickerNames, v \in {NoNum, SomeNum(1)} }

KeyPrefixes == { "stock:pl_daily" }

CacheKeys == { CacheKey(pre, t) : pre \in KeyPrefixes, t \in TickerNames }

OldCell == [present |-> TRUE, val |-> <<"old">>, ttl |-> <<"30">>]

\* the caches a publish may start on: empty, one key of an earlier run, or
\* every key of an earlier run
Caches ==
    { [k \in CacheKeys |-> Absent],
      [k \in CacheKeys |-> OldCell],
      [k \in CacheKeys |->
          IF k = CacheKey("stock:pl_daily", <<"A">>) THEN OldCell ELSE Absent] }

DiscoverIdle ==
    /\ dpc = "init"
    /\ next_url = NoUrl
    /\ query = FALSE
    /\ tickers = <<>>
    /\ pagereqs = <<>>
    /\ pageresps = <<>>
    /\ dret = NoneV

\* no run of the entry point
EntryIdle ==
    /\ epc = "none"
    /\ pl_timezone = "America/New_York"
    /\ ticker_limit = NoInt
    /\ now = 0
    /\ as_of = ""
    /\ pl_entries = <<>>
    /\ eret = NoneV

PublishIdle ==
    /\ ppc = "init"
    /\ pcalls = 1
    /\ nbatches = 0
    /\ pipereqs = <<>>
    /\ inflight = <<>>
    /\ presp = 0
    /\ presps = <<>>
    /\ executed = <<>>
    /\ pret = ""

----------------------------------------------------------------------------
(* Specification of one call of fetch_market_snapshots *)

InitFetch ==
    /\ api_key \in {"", "K"}
    /\ DiscoverIdle
    /\ f_tickers \in SeqsUpTo(RawTickers, MaxTickers)
    /\ batch_size \in 0..MaxSize
    /\ concurrency \in 0..MaxSize
    /\ FetchIdle
    /\ redis_url = NoStr /\ redis_token = NoStr /\ redis_pipeline_size = 1
    /\ redis_key_prefix = "stock:pl_daily" /\ redis_ttl_seconds = NoInt
    /\ entries = <<>>
    /\ cache = [k \in CacheKeys |-> Absent]
    /\ cache0 = cache
    /\ PublishIdle
    /\ EntryIdle

NextFetch ==
    \/ FetchNoKey
    \/ FetchEmpty
    \/ FetchStart
    \/ \E t \in TaskIds : TaskStart(t)
    \/ \E t \in TaskIds : GateAdmit(t)
    \/ \E t \in TaskIds : ChunkResponse(t)
    \/ CollectOk
    \/ CollectFailed
    \/ FetchClose
    \/ LoopTeardown

SpecFetch == InitFetch /\ [][NextFetch]_vars

----------------------------------------------------------------------------
(* Specification of the start of fetch_market_snapshots: the argument
   checks, the normalisation and the chunking *)

NextChunking ==
    \/ FetchNoKey
    \/ FetchEmpty
    \/ FetchStart

SpecChunking == InitFetch /\ [][NextChunking]_vars

----------------------------------------------------------------------------
(* Specification of one call of fetch_market_snapshots on a loop that runs
   every ready callback and a source that answers every request or lets it
   time out *)

InitFetchFair ==
    /\ api_key \in {"", "K"}
    /\ DiscoverIdle
    /\ f_tickers \in SeqsUpTo({ <<"a">>, <<" ">> }, MaxTickers)
    /\ batch_size \in -1..MaxSize
    /\ concurrency \in -1..MaxSize
    /\ FetchIdle
    /\ redis_url = NoStr /\ redis_token = NoStr /\ redis_pipeline_size = 1
    /\ redis_key_prefix = "stock:pl_daily" /\ redis_ttl_seconds = NoInt
    /\ entries = <<>>
    /\ cache = [k \in CacheKeys |-> Absent]
    /\ cache0 = cache
    /\ PublishIdle
    /\ EntryIdle

\* the steps of the coroutine itself
CoroutineStep ==
    FetchNoKey \/ FetchEmpty \/ FetchStart \/ CollectOk \/ CollectFailed \/ FetchClose

\* the steps of the chunk tasks that the loop runs once they are ready
TaskStep == \E t \in TaskIds : TaskStart(t) \/ GateAdmit(t)

\* the end of an issued request: its response or its timeout
RequestEnds == \E t \in TaskIds : ChunkResponse(t)

SpecFetchFair ==
    /\ InitFetchFair
    /\ [][NextFetch]_vars
    /\ WF_vars(CoroutineStep)
    /\ WF_vars(TaskStep)
    /\ WF_vars(RequestEnds)

----------------------------------------------------------------------------
(* Specification of one call of push_daily_pl_to_redis *)

InitPublish ==
    /\ api_key = "K"
    /\ DiscoverIdle
    /\ f_tickers = <<>> /\ batch_size = 1 /\ concurrency = 1
    /\ FetchIdle
    /\ redis_url \in {NoStr, SomeStr(""), SomeStr("U")}
    /\ redis_token \in {NoStr, SomeStr("T")}
    /\ redis_pipeline_size \in 0..MaxPipeline
    /\ redis_key_prefix \in KeyPrefixes
    /\ redis_ttl_seconds \in {NoInt, SomeInt(60)}
    /\ entries \in SeqsUpTo(TickerPLs, MaxEntries)
    /\ cache \in Caches
    /\ cache0 = cache
    /\ PublishIdle
    /\ EntryIdle

NextPublish ==
    \/ PublishDisabled
    \/ PublishEmpty
    \/ PublishBegin
    \/ PublishSend
    \/ PipelineServe
    \/ PublishResponse

SpecPublish == InitPublish /\ [][NextPublish]_vars

----------------------------------------------------------------------------
(* Specification of two calls of push_daily_pl_to_redis in succession, with
   the same entries, prefix and TTL *)

NextPublishTwice ==
    \/ NextPublish
    \/ PublishAgain

SpecPublishTwice == InitPublish /\ [][NextPublishTwice]_vars

----------------------------------------------------------------------------
(* Specification of one call of fetch_all_active_stock_tickers *)

InitDiscover ==
    /\ api_key \in {"", "K"}
    /\ DiscoverIdle
    /\ f_tickers = <<>> /\ batch_size = 1 /\ concurrency = 1
    /\ FetchIdle
    /\ redis_url = NoStr /\ redis_token = NoStr /\ redis_pipeline_size = 1
    /\ redis_key_prefix = "stock:pl_daily" /\ redis_ttl_seconds = NoInt
    /\ entries = <<>>
    /\ cache = [k \in CacheKeys |-> Absent]
    /\ cache0 = cache
    /\ PublishIdle
    /\ EntryIdle

NextDiscover ==
    \/ DiscoverNoKey
    \/ DiscoverBegin
    \/ PageSend
    \/ PageTimeout
    \/ PageResponse

SpecDiscover == InitDiscover /\ [][NextDiscover]_vars

----------------------------------------------------------------------------
(* Specification of the derivation of collect_daily_pl, applied to a
   snapshot list the fetch returned *)

\* what a numeric field of a snapshot record may hold: nothing, a number, a
\* string that spells a number (with or without whitespace), a string that
\* spells none, the empty string, a boolean, an object, an integer beyond
\* the range of float
JsonValues ==
    { NoNum, SomeNum(1), SomeNum(3),
      StrV(<<"4">>), StrV(<<" ", "1", "2">>), StrV(<<"b", "a", "d">>), StrV(<<>>),
      [kind |-> "bool", val |-> TRUE],
      [kind |-> "dict", val |-> <<>>],
      [kind |-> "bigint", val |-> 0] }

\* what the ticker field may hold: a symbol, the empty string, nothing, a
\* number
TickerValues ==
    { StrV(<<"a">>), StrV(<<" ", "b">>), StrV(<<>>), NoneV,
      [kind |-> "num", val |-> <<>>] }

\* what the field "min" may hold: an object with or without a usable "c",
\* nothing, a string
MinBlocks ==
    { [kind |-> "dict", c |-> v] : v \in JsonValues }
      \cup { [kind |-> "none", c |-> NoNum], [kind |-> "str", c |-> NoNum] }

\* the snapshot records of the model: the record of the source with one
\* field at a time replaced
RawRecords ==
    { [SnapRecord(<<"a">>) EXCEPT !.ticker = t] : t \in TickerValues }
      \cup { [SnapRecord(<<"a">>) EXCEPT !.todaysChange = v] : v \in JsonValues }
      \cup { [SnapRecord(<<"a">>) EXCEPT !.todaysChangePerc = v] : v \in JsonValues }
      \cup { [SnapRecord(<<"a">>) EXCEPT !.min = b] : b \in MinBlocks }

InitDerive ==
    /\ api_key = "K"
    /\ dpc = "returned" /\ next_url = NoUrl /\ query = FALSE /\ tickers = <<>>
    /\ pagereqs = <<>> /\ pageresps = <<>> /\ dret = ListV(<<>>)
    /\ f_tickers = <<>> /\ batch_size = 1 /\ concurrency = 1
    /\ fpc = "returned" /\ client = "none" /\ sem = 0 /\ tasks = <<>>
    /\ doneq = <<>> /\ nretrieved = 0 /\ results = <<>> /\ snapreqs = <<>>
    /\ fexc = "" /\ loop = "running"
    /\ fret \in { ListV(s) : s \in SeqsUpTo(RawRecords, MaxRecords) }
    /\ redis_url = NoStr /\ redis_token = NoStr /\ redis_pipeline_size = 1
    /\ redis_key_prefix = "stock:pl_daily" /\ redis_ttl_seconds = NoInt
    /\ entries = <<>>
    /\ cache = [k \in CacheKeys |-> Absent]
    /\ cache0 = cache
    /\ ppc = "idle" /\ pcalls = 0 /\ nbatches = 0 /\ pipereqs = <<>>
    /\ inflight = <<>> /\ presp = 0 /\ presps = <<>> /\ executed = <<>>
    /\ pret = ""
    /\ epc = "fetch"
    /\ pl_timezone = "America/New_York"
    /\ ticker_limit = NoInt
    /\ now = 0
    /\ as_of = DateNow(pl_timezone, now)
    /\ pl_entries = <<>>
    /\ eret = NoneV

NextDerive == CollectDerive

SpecDerive == InitDerive /\ [][NextDerive]_vars

----------------------------------------------------------------------------
(* Specification of one run of the entry point *)

InitEntry ==
    /\ api_key \in {"", "K"}
    /\ dpc = "idle" /\ next_url = NoUrl /\ query = FALSE /\ tickers = <<>>
    /\ pagereqs = <<>> /\ pageresps = <<>> /\ dret = NoneV
    /\ f_tickers = <<>>
    /\ batch_size \in {1, 2}
    /\ concurrency \in {1, 2}
    /\ fpc = "idle" /\ client = "none" /\ sem = 0 /\ tasks = <<>>
    /\ doneq = <<>> /\ nretrieved = 0 /\ results = <<>> /\ snapreqs = <<>>
    /\ fexc = "" /\ fret = NoneV /\ loop = "running"
    /\ redis_url = SomeStr("U") /\ redis_token = SomeStr("T")
    /\ redis_pipeline_size \in {1, 2}
    /\ redis_key_prefix = "stock:pl_daily"
    /\ redis_ttl_seconds = SomeInt(60)
    /\ entries = <<>>
    /\ cache = [k \in CacheKeys |-> OldCell]
    /\ cache0 = cache
    /\ ppc = "idle" /\ pcalls = 0 /\ nbatches = 0 /\ pipereqs = <<>>
    /\ inflight = <<>> /\ presp = 0 /\ presps = <<>> /\ executed = <<>>
    /\ pret = ""
    /\ epc = "start"
    /\ pl_timezone \in {"Asia/Tokyo", "Mars/Phobos"}
    /\ ticker_limit \in {NoInt, SomeInt(2)}
    /\ now = 0
    /\ as_of = ""
    /\ pl_entries = <<>>
    /\ eret = NoneV

NextEntry ==
    \/ EntryConfigError
    \/ CollectBegin
    \/ DiscoverBegin
    \/ PageSend
    \/ PageTimeout
    \/ PageResponse
    \/ CollectDiscoverFailed
    \/ CollectFetch
    \/ FetchEmpty
    \/ FetchStart
    \/ \E t \in TaskIds : TaskStart(t)
    \/ \E t \in TaskIds : GateAdmit(t)
    \/ \E t \in TaskIds : ChunkResponse(t)
    \/ CollectOk
    \/ CollectFailed
    \/ FetchClose
    \/ CollectFetchFailed
    \/ CollectDerive
    \/ PublishEmpty
    \/ PublishBegin
    \/ PublishSend
    \/ PipelineServe
    \/ PublishResponse
    \/ EntryEnd
    \/ EntryTeardown
    \/ Tick

SpecEntry == InitEntry /\ [][NextEntry]_vars

----------------------------------------------------------------------------
(* Claims about fetch_market_snapshots, under SpecFetch *)

NumInFlight == Cardinality(InFlight)

\* a chunk request of the call has failed: failure-class status or timeout
RequestFailed(t) == tasks[t].out = -1 \/ tasks[t].out >= 400

AllBlank(ts) == \A i \in DOMAIN ts : \A j \in DOMAIN ts[i] : ts[i][j] = " "

\* C1 (as stated): the number of chunk requests in flight never exceeds the
\* configured concurrency value.
C1_InFlightAtMostConcurrency == NumInFlight <= concurrency

\* C1 (amended): the number of chunk requests in flight never exceeds
\* max(1, concurrency): the configured value when it is at least 1, and 1
\* when it is 0 or less.
C1_InFlightAtMostClamped ==
    NumInFlight <= (IF concurrency >= 1 THEN concurrency ELSE 1)

\* C1 witness: the gate is full at a configured value of 2 and a further
\* chunk task waits for a slot.
C1_Witness == concurrency = 2 /\ NumInFlight = 2 /\ AtGate # {}

\* C2: once a chunk request has returned a failure-class status or timed out
\* the call never returns a snapshot list, and when it has ended it has ended
\* with an error, whatever the earlier chunks had delivered.
C2_FailureAbortsWhole ==
    (\E t \in TaskIds : RequestFailed(t)) =>
        /\ fret.kind # "list"
        /\ fpc # "returned"
        /\ (fpc = "raised" => fret.kind = "error")

\* C2 witness: the call has raised although the records of a chunk that
\* completed before the failing one had been accumulated.
C2_Witness ==
    /\ fpc = "raised"
    /\ fret.kind = "error"
    /\ results # <<>>
    /\ \E t \in TaskIds : RequestFailed(t) /\ tasks[t].st = "failed"

\* C3: once the failure of a chunk request has been surfaced and the client
\* closed, no chunk task of the call is still pending.
C3_NoPendingSibling ==
    (fpc = "raised" /\ client = "closed") => \A t \in TaskIds : ~Pending(t)

\* C10: when every input ticker is empty or whitespace-only the call creates
\* no chunk task, opens no client and sends no request, what it returns is
\* the empty sequence, and with a credential it does not fail.
C10_BlankInputNoRequest ==
    AllBlank(f_tickers) =>
        /\ tasks = <<>>
        /\ snapreqs = <<>>
        /\ client = "none"
        /\ (fret.kind = "list" => fret.val = <<>>)
        /\ (api_key # "" => fret.kind # "error")

\* C10 witness: a call with a non-empty, all-blank ticker list has returned.
C10_Witness ==
    /\ f_tickers # <<>>
    /\ AllBlank(f_tickers)
    /\ fpc = "returned"
    /\ fret = ListV(<<>>)

----------------------------------------------------------------------------
(* Claims about push_daily_pl_to_redis, under SpecPublish *)

RECURSIVE CommandsOf(_)

PublishEnabled == ~(redis_url.kind = "none" \/ redis_url.val = "")
                  /\ ~(redis_token.kind = "none" \/ redis_token.val = "")

\* the batch size in force: the configured size, 1 when that is below 1
BatchSizeInForce == IF redis_pipeline_size >= 1 THEN redis_pipeline_size ELSE 1

CeilDiv(n, b) == (n + b - 1) \div b

\* the commands the entries es stand for, entry by entry
CommandsOf(es) ==
    IF es = <<>> THEN <<>>
    ELSE (IF redis_ttl_seconds.kind = "none"
          THEN << <<"SET", <<redis_key_prefix, ":">> \o Head(es).ticker,
                    Serialize(Head(es))>> >>
          ELSE << <<"SET", <<redis_key_prefix, ":">> \o Head(es).ticker,
                    Serialize(Head(es))>>,
                  <<"EXPIRE", <<redis_key_prefix, ":">> \o Head(es).ticker,
                    <<ToString(redis_ttl_seconds.val)>> >> >>)
         \o CommandsOf(Tail(es))

\* the entries of batch i of the partition
BatchEntries(i) ==
    SubSeq(entries, (i - 1) * BatchSizeInForce + 1,
           Min(i * BatchSizeInForce, Len(entries)))

\* C4: when the request of batch k is answered with a failure-class status
\* the publish has aborted with RedisCacheError, k requests have been sent
\* and none after, and the cache holds the executed commands of batches
\* 1..k-1 followed by nothing but commands of batch k (no rollback).
C4_FailedBatchAborts ==
    \A k \in DOMAIN presps :
        presps[k] >= 400 =>
            /\ ppc = "raised"
            /\ pret = "RedisCacheError"
            /\ k = Len(presps)
            /\ Len(pipereqs) = k
            /\ \A i \in 1..(k - 1) : presps[i] \in 1..399
            /\ \E j \in 0..Len(CommandsOf(BatchEntries(k))) :
                  cache = Execute(cache0,
                              CommandsOf(SubSeq(entries, 1,
                                                (k - 1) * BatchSizeInForce))
                              \o SubSeq(CommandsOf(BatchEntries(k)), 1, j))

\* C4 witness: the second batch failed after the first was written.
C4_Witness ==
    /\ ppc = "raised"
    /\ Len(presps) = 2
    /\ presps[2] >= 400
    /\ cache # cache0

\* C5: requests go out one at a time and in partition order; a publish of
\* n >= 1 entries in which every batch succeeds has sent exactly ceil(n/b)
\* requests, request i carrying for each entry of batch i its SET, followed
\* at once by the EXPIRE of the same key when a TTL is configured: 2k
\* commands for k entries with a TTL, k without.
C5_RequestsPerBatch ==
    /\ Len(inflight) <= 1
    /\ Len(pipereqs) = Len(presps) + Len(inflight)
    /\ \A i \in DOMAIN pipereqs : pipereqs[i] = CommandsOf(BatchEntries(i))
    /\ (ppc = "returned" /\ PublishEnabled /\ entries # <<>>) =>
          /\ Len(pipereqs) = CeilDiv(Len(entries), BatchSizeInForce)
          /\ \A i \in DOMAIN pipereqs :
                LET k == Len(BatchEntries(i))
                    req == pipereqs[i]
                IN /\ k >= 1
                   /\ k <= BatchSizeInForce
                   /\ IF redis_ttl_seconds.kind = "none"
                      THEN /\ Len(req) = k
                           /\ \A j \in 1..k : req[j][1] = "SET"
                      ELSE /\ Len(req) = 2 * k
                           /\ \A j \in 1..k :
                                 /\ req[2 * j - 1][1] = "SET"
                                 /\ req[2 * j][1] = "EXPIRE"
                                 /\ req[2 * j][2] = req[2 * j - 1][2]

\* C5 witness: batch size 2, 3 entries, a TTL: two requests, of 4 and of 2
\* commands.
C5_Witness ==
    /\ ppc = "returned"
    /\ redis_pipeline_size = 2
    /\ Len(entries) = 3
    /\ redis_ttl_seconds.kind = "int"
    /\ Len(pipereqs) = 2
    /\ Len(pipereqs[1]) = 4
    /\ Len(pipereqs[2]) = 2

\* C6: with the cache endpoint unset, the credential unset or no entries,
\* the publish sends no request, leaves the cache as it was and returns
\* without an error.
C6_NoOpPublish ==
    (~PublishEnabled \/ entries = <<>>) =>
        /\ pipereqs = <<>>
        /\ inflight = <<>>
        /\ cache = cache0
        /\ ppc \in {"init", "returned"}
        /\ (ppc = "returned" => pret = "ok")

\* C6 witness: a publish of entries has returned with the endpoint given as
\* the empty string and a cache that held keys.
C6_Witness ==
    /\ ppc = "returned"
    /\ pret = "ok"
    /\ entries # <<>>
    /\ redis_url = SomeStr("")
    /\ redis_token = SomeStr("T")
    /\ cache # [k \in CacheKeys |-> Absent]

----------------------------------------------------------------------------
(* Claims about fetch_all_active_stock_tickers, under SpecDiscover *)

RECURSIVE SymbolsOfItems(_)
RECURSIVE SymbolsOfPages(_)

\* the page carries a next-page cursor
CursorPresent(resp) ==
    resp.payload.next_url.kind = "str" /\ resp.payload.next_url.val # <<>>

PageOk(resp) == resp.status \in 1..399

\* the non-empty string symbols of a result list, uppercased, in order
SymbolsOfItems(items) ==
    IF items = <<>> THEN <<>>
    ELSE (IF Head(items).ticker.kind = "str" /\ Len(Head(items).ticker.val) > 0
          THEN <<[i \in 1..Len(Head(items).ticker.val) |->
                     UpperChar(Head(items).ticker.val[i])]>>
          ELSE <<>>) \o SymbolsOfItems(Tail(items))

\* the same over the pages of a sequence of responses, in page order
SymbolsOfPages(resps) ==
    IF resps = <<>> THEN <<>>
    ELSE (IF Head(resps).payload.has
          THEN SymbolsOfItems(Head(resps).payload.results)
          ELSE <<>>) \o SymbolsOfPages(Tail(resps))

\* how often a request carries the credential: in its URL and its params
CredentialCount(req) ==
    Cardinality({ i \in DOMAIN req.url :
                    req.url[i] = [k |-> "apiKey", v |-> api_key] })
    + Cardinality({ q \in req.params : q = [k |-> "apiKey", v |-> api_key] })

\* C7: when a page request is answered with a failure-class status the
\* discovery has raised PolygonApiError at that page: it is the last
\* response, no request follows it, and no ticker list is returned.
C7_FailedPageAborts ==
    \A k \in DOMAIN pageresps :
        pageresps[k].status >= 400 =>
            /\ dpc = "raised"
            /\ dret = ErrV("PolygonApiError")
            /\ k = Len(pageresps)
            /\ Len(pagereqs) = k

\* C7 witness: the second page failed after the first had delivered tickers.
C7_Witness ==
    /\ dpc = "raised"
    /\ Len(pageresps) = 2
    /\ pageresps[2].status >= 400
    /\ tickers # <<>>

\* C8: page requests go out one at a time; the discovery returns exactly
\* when a page without cursor arrives, after as many requests as pages, with
\* the accepted symbols of all pages in page order; while every page
\* carries a cursor it does not terminate.
C8_PaginationToLastPage ==
    /\ Len(pagereqs) = Len(pageresps) + (IF dpc = "await" THEN 1 ELSE 0)
    /\ dpc = "returned" =>
          /\ pageresps # <<>>
          /\ Len(pagereqs) = Len(pageresps)
          /\ ~CursorPresent(pageresps[Len(pageresps)])
          /\ \A i \in 1..(Len(pageresps) - 1) : CursorPresent(pageresps[i])
          /\ \A i \in DOMAIN pageresps : PageOk(pageresps[i])
          /\ dret = ListV(SymbolsOfPages(pageresps))
    /\ (\A i \in DOMAIN pageresps :
            PageOk(pageresps[i]) /\ CursorPresent(pageresps[i]))
          => dpc \notin {"returned"} /\ (api_key # "" => dpc # "raised")
    /\ (\E i \in DOMAIN pageresps :
            PageOk(pageresps[i]) /\ ~CursorPresent(pageresps[i]))
          => dpc = "returned"

\* C8 witness: a chain of three pages, the third the first without a
\* cursor, has been read and symbols returned.
C8_Witness ==
    /\ dpc = "returned"
    /\ Len(pagereqs) = 3
    /\ Len(dret.val) >= 3

\* C9: every page request sent carries the API credential exactly once.
C9_CredentialOnce ==
    \A i \in DOMAIN pagereqs : CredentialCount(pagereqs[i]) = 1

\* C9 witness: three requests have gone out, the second built from a cursor
\* URL that embeds the credential, the third from one that does not.
C9_Witness ==
    /\ Len(pagereqs) = 3
    /\ HasApiKey(pageresps[1].payload.next_url.val)
    /\ ~HasApiKey(pageresps[2].payload.next_url.val)

----------------------------------------------------------------------------
(* Claims about the chunking of fetch_market_snapshots, under SpecChunking *)

RECURSIVE Flatten(_)

\* the concatenation of the sequences of ss, in order
Flatten(ss) == IF ss = <<>> THEN <<>> ELSE Head(ss) \o Flatten(Tail(ss))

\* s has a character that is not whitespace
HasInk(s) == \E i \in 1..Len(s) : ~IsSpace(s[i])

\* s without its leading and trailing whitespace, uppercased, said by the
\* positions of its first and last non-blank characters
TrimmedUpper(s) ==
    LET ink == { i \in 1..Len(s) : ~IsSpace(s[i]) }
        lo == CHOOSE i \in ink : \A j \in ink : i <= j
        hi == CHOOSE i \in ink : \A j \in ink : j <= i
    IN  [k \in 1..(hi - lo + 1) |-> UpperChar(s[lo + k - 1])]

\* the input list trimmed, uppercased, empties dropped, original order kept
NormalizedList(raw) ==
    LET kept == SelectSeq(raw, HasInk)
    IN  [i \in 1..Len(kept) |-> TrimmedUpper(kept[i])]

\* the chunks of the call, in chunk order
ChunksOfCall == [t \in TaskIds |-> tasks[t].chunk]

\* C11: with b = max(1, batch_size) and n the length of the normalized
\* ticker list, a call that got past its argument checks has exactly
\* ceil(n/b) chunks, each non-empty and of size at most b, and the chunks
\* read in chunk order are the normalized list (trimmed, uppercased,
\* empties dropped, original order kept)
C11_ChunksPartitionNormalized ==
    (fpc # "init" /\ api_key # "") =>
        LET b == Max(1, batch_size)
            norm == NormalizedList(f_tickers)
        IN  /\ Len(tasks) = CeilDiv(Len(norm), b)
            /\ \A t \in TaskIds :
                  /\ tasks[t].chunk # <<>>
                  /\ Len(tasks[t].chunk) <= b
            /\ Flatten(ChunksOfCall) = norm

\* three raw tickers, one of them with whitespace and lowercase, cut with
\* b = 2 into a chunk of two and a chunk of one
C11_Witness ==
    /\ batch_size = 2
    /\ f_tickers = << <<"a">>, <<" ", "b", " ">>, <<"a">> >>
    /\ Len(tasks) = 2
    /\ tasks[1].chunk = << <<"A">>, <<"B">> >>
    /\ tasks[2].chunk = << <<"A">> >>

----------------------------------------------------------------------------
(* Claims about the aggregate of fetch_market_snapshots, under SpecFetch *)

\* the records of the tasks ts (a sequence of task ids), task after task
RECURSIVE RecordsOf(_)
RecordsOf(ts) ==
    IF ts = <<>> THEN <<>> ELSE tasks[Head(ts)].data \o RecordsOf(Tail(ts))

\* C17: when every chunk request succeeded and the call returned, every
\* task appears exactly once in the completion order and the aggregate is
\* the records of the chunks, each chunk's records contiguous and in
\* response order, the chunks in the order their tasks completed
C17_AggregateInCompletionOrder ==
    (fpc = "returned" /\ tasks # <<>>) =>
        /\ \A t \in TaskIds : ~FailureClass(tasks[t].out) /\ ~IsTimeout(tasks[t].out)
        /\ Len(doneq) = Len(tasks)
        /\ \A t \in TaskIds : \E i \in 1..Len(doneq) : doneq[i] = t
        /\ fret = ListV(RecordsOf(doneq))

\* a call that returned with two chunks, the second completed first and both
\* responses carrying records: the aggregate is not in submission order
C17_Witness ==
    /\ fpc = "returned"
    /\ Len(tasks) = 2
    /\ doneq = <<2, 1>>
    /\ tasks[1].data # <<>>
    /\ tasks[2].data # <<>>
    /\ tasks[1].data # tasks[2].data
    /\ fret.val = tasks[2].data \o tasks[1].data

----------------------------------------------------------------------------
(* Claims about the termination of fetch_market_snapshots, under
   SpecFetchFair *)

\* the call has ended: it returned the aggregate or raised
FetchEnded == fpc \in {"returned", "raised"}

\* every slot of the gate is either free or held by a request in flight
SlotsAccounted ==
    tasks # <<>> => sem + NumInFlight = SemaphoreSize(concurrency)

\* C18: when every issued chunk request ends (response or timeout), the
\* call ends, with the aggregate or with an error, for every chunk count
\* and every concurrency and batch size, values <= 0 included (they act as
\* 1); every slot taken is given back when its request ends, whatever the
\* outcome, and a call that returns has admitted every chunk task
C18_FetchTerminates ==
    /\ <>FetchEnded
    /\ [](SlotsAccounted)
    /\ []((fpc = "returned") => \A t \in TaskIds : tasks[t].out # 0)

\* a call with concurrency and batch size below 1 that had three chunks,
\* saw a request time out, and ended
C18_Witness ==
    /\ FetchEnded
    /\ concurrency = -1
    /\ batch_size = 0
    /\ Len(tasks) = 3
    /\ \E t \in TaskIds : IsTimeout(tasks[t].out)
    /\ sem + NumInFlight = 1

----------------------------------------------------------------------------
(* Claims about the cache after a publish, under SpecPublish *)

\* the position of the last entry that bears the ticker of entry i
LastBearing(i) ==
    CHOOSE j \in DOMAIN entries :
        /\ entries[j].ticker = entries[i].ticker
        /\ \A k \in DOMAIN entries : entries[k].ticker = entries[i].ticker => k <= j

\* the keys of the entries' tickers
EntryKeys == { CacheKey(redis_key_prefix, entries[i].ticker) : i \in DOMAIN entries }

\* every batch of the publish was answered with a success status
PublishSucceeded ==
    /\ ppc = "returned"
    /\ PublishEnabled
    /\ entries # <<>>

\* C19: after a publish in which every batch succeeded, the key
\* {prefix}:{TICKER} of every entry exists and holds the serialized record
\* of the last entry in the sequence that bears that ticker, and the keys
\* of no entry's ticker are as they were before the publish
C19_LastEntryWins ==
    PublishSucceeded =>
        /\ Len(presps) = Len(PublishBatches)
        /\ \A i \in DOMAIN entries :
              LET cell == cache[CacheKey(redis_key_prefix, entries[i].ticker)]
              IN  /\ cell.present
                  /\ cell.val = Serialize(entries[LastBearing(i)])
        /\ \A k \in CacheKeys \ EntryKeys : cache[k] = cache0[k]

\* a publish of three entries in two batches on a cache that held both
\* keys: the ticker of the first entry comes again, with another record, in
\* the second batch, and the other key is not written
C19_Witness ==
    /\ PublishSucceeded
    /\ Len(entries) = 3
    /\ PipelineSize(redis_pipeline_size) = 2
    /\ entries[1].ticker = entries[3].ticker
    /\ entries[2].ticker = entries[1].ticker
    /\ entries[1] # entries[3]
    /\ cache0 = [k \in CacheKeys |-> OldCell]
    /\ \E k \in CacheKeys \ EntryKeys : cache[k] = OldCell

----------------------------------------------------------------------------
(* Claims about publishing twice, under SpecPublishTwice *)

\* C12: when the publish has run twice in succession with the same
\* entries, prefix and TTL, both runs returning, the cache after the second
\* run (keys, values and expiry) is the cache the first run left, whatever
\* the cache held before the first run
C12_PublishIdempotent ==
    (pcalls = 2 /\ ppc = "returned") => cache = cache0

\* a second run that wrote three entries with a TTL in two batches, on top
\* of what the first run had written
C12_Witness ==
    /\ pcalls = 2
    /\ PublishSucceeded
    /\ redis_ttl_seconds = SomeInt(60)
    /\ Len(entries) = 3
    /\ Len(presps) = 2
    /\ entries[1].ticker = entries[3].ticker
    /\ entries[1] # entries[3]
    /\ cache[CacheKey(redis_key_prefix, entries[3].ticker)] =
          [present |-> TRUE, val |-> Serialize(entries[3]), ttl |-> <<"60">>]

----------------------------------------------------------------------------
(* Claims about one run of the entry point, under SpecEntry *)

\* discovery has received its last page and returned
DiscoveryDone == dpc = "returned" /\ Len(pageresps) = Len(pagereqs)

\* every snapshot chunk has completed and the fetch has returned
FetchDone == fpc = "returned" /\ \A t \in TaskIds : tasks[t].st = "ok"

\* nothing has been sent to the cache and the cache is as it was
NoCacheWrite == pipereqs = <<>> /\ executed = <<>> /\ cache = cache0

\* the order of the stages, and what a failed stage leaves behind
StagesInOrder ==
    /\ (fpc # "idle" \/ snapreqs # <<>>) => DiscoveryDone
    /\ (ppc # "idle" \/ pipereqs # <<>>) => (DiscoveryDone /\ FetchDone)
    /\ dpc = "raised" =>
          /\ fpc = "idle" /\ snapreqs = <<>>
          /\ ppc = "idle" /\ NoCacheWrite
          /\ Len(pagereqs) = Len(pageresps)
          /\ epc \in {"discover", "failed"}
          /\ epc = "failed" => eret = dret
    /\ fpc = "raised" =>
          /\ ppc = "idle" /\ NoCacheWrite
          /\ epc \in {"fetch", "failed"}
          /\ epc = "failed" => eret = fret

\* a stage that has ended is not entered again and sends nothing more
NoStageAgain ==
    /\ dpc \in {"returned", "raised"} => (dpc' = dpc /\ pagereqs' = pagereqs)
    /\ fpc \in {"returned", "raised"} => (fpc' = fpc /\ snapreqs' = snapreqs)
    /\ ppc \in {"returned", "raised"} => (ppc' = ppc /\ pipereqs' = pipereqs)

\* C13: in every run of the entry point the stages run in the order
\* discovery, snapshot fetch, derivation, publish: no snapshot request goes
\* out before the last discovery page has been received, no cache write
\* before every chunk has completed; when discovery or the fetch fails the
\* error reaches the caller, no later stage is started, nothing is written
\* to the cache and no stage is run again
C13_StagesStrictlyOrdered == [](StagesInOrder) /\ [][NoStageAgain]_vars

\* a run whose discovery returned two symbols and whose fetch then failed on
\* a chunk request: the entry point ended with that error, the publish was
\* never called
C13_Witness ==
    /\ epc = "failed"
    /\ dpc = "returned"
    /\ Len(pageresps) = 2
    /\ fpc = "raised"
    /\ Len(snapreqs) = 2
    /\ eret = ErrV("PolygonApiError")
    /\ ppc = "idle"

\* a is a subsequence of b: a can be read off b from left to right
RECURSIVE IsSubsequence(_, _)
IsSubsequence(a, b) ==
    IF a = <<>> THEN TRUE
    ELSE IF b = <<>> THEN FALSE
    ELSE IF Head(a) = Head(b) THEN IsSubsequence(Tail(a), Tail(b))
    ELSE IsSubsequence(a, Tail(b))

\* the discovered tickers the run may draw from: the first L when a
\* maximum count L is configured, else all of them
Eligible ==
    IF ticker_limit.kind = "none" THEN dret.val
    ELSE SubSeq(dret.val, 1, Min(ticker_limit.val, Len(dret.val)))

\* the tickers of the chunk requests, read in chunk order
Requested == Flatten(ChunksOfCall)

\* s with each string stripped of the whitespace around it
EachStripped(s) == [i \in DOMAIN s |-> Strip(s[i])]

\* C14 as stated: the tickers of the chunk requests, in chunk order, are a
\* subsequence of the discovered list, of its first L tickers when a
\* maximum count L is configured
C14_RequestedFromDiscovered ==
    (dpc = "returned" /\ tasks # <<>>) => IsSubsequence(Requested, Eligible)

\* C14, amended: the tickers of the chunk requests, in chunk order, are a
\* subsequence of the discovered list with each ticker stripped of the
\* whitespace around it, of its first L tickers when a maximum count L is
\* configured; every requested ticker is the stripped form of a discovered
\* one
C14_RequestedFromStrippedDiscovered ==
    (dpc = "returned" /\ tasks # <<>>) =>
        /\ IsSubsequence(Requested, EachStripped(Eligible))
        /\ \A i \in DOMAIN Requested :
              \E j \in DOMAIN Eligible : Requested[i] = Strip(Eligible[j])

\* discovery returned three symbols, the limit is two, and the chunk
\* requests carry the first two, the second one without its whitespace
C14_Witness ==
    /\ dpc = "returned"
    /\ Len(dret.val) = 3
    /\ ticker_limit = SomeInt(2)
    /\ dret.val[2] = <<" ", "B">>
    /\ Requested = << <<"A">>, <<"B">> >>

\* every entry built so far, and every entry handed to the publish, carries
\* the date taken at the start of collect_daily_pl, which is taken before
\* discovery is called
DatesShared ==
    /\ dpc # "idle" => as_of # ""
    /\ \A i \in DOMAIN pl_entries : pl_entries[i].date = as_of
    /\ epc # "none" => \A i \in DOMAIN entries : entries[i].date = as_of

\* the date, once taken, is not taken again
DateTakenOnce == as_of # "" => as_of' = as_of

\* C16: all entries of one call of collect_daily_pl carry the same date
\* string, the one computed before discovery starts; it does not change
\* while discovery and the fetch run, however long they take and in
\* whatever order the chunks complete
C16_OneDatePerRun == [](DatesShared) /\ [][DateTakenOnce]_vars

\* a run that ended with two entries, whose chunks completed out of
\* submission order and during which the local date changed
C16_Witness ==
    /\ epc = "done"
    /\ Len(pl_entries) = 2
    /\ doneq = <<2, 1>>
    /\ as_of # DateNow(pl_timezone, now)
    /\ pl_entries[1].date = as_of
    /\ pl_entries[2].date = as_of

\* the positions <<task, index>> of the snapshot records the chunk
\* responses of the run carried
RecordPositions ==
    UNION { { <<t, i>> : i \in DOMAIN tasks[t].data } : t \in TaskIds }

RecordAt(p) == tasks[p[1]].data[p[2]]

\* no ticker occurs in more than one snapshot record
TickersDistinct ==
    \A p, q \in RecordPositions :
        p # q => UpperStr(RecordAt(p).ticker.val) # UpperStr(RecordAt(q).ticker.val)

\* the cell the record at p stands for: its entry, serialized, with the
\* configured expiry
CellOf(p) ==
    [present |-> TRUE,
     val |-> Serialize(DeriveOne(RecordAt(p), as_of)),
     ttl |-> IF redis_ttl_seconds.kind = "none" THEN <<>>
             ELSE <<ToString(redis_ttl_seconds.val)>>]

\* the run went through every stage without an error
RunSucceeded == epc = "done" /\ ppc = "returned" /\ fpc = "returned"

\* C20: for a discovered list and per-chunk responses in which no ticker
\* occurs in more than one snapshot record, the cache after a fully
\* successful run is given by the records alone, whatever the order in
\* which the chunk tasks completed: the key of each record's ticker holds
\* that record's entry, every other key is as it was
C20_CacheIndependentOfCompletionOrder ==
    (RunSucceeded /\ TickersDistinct) =>
        \A k \in DOMAIN cache :
            LET hits == { p \in RecordPositions :
                            CacheKey(redis_key_prefix,
                                     UpperStr(RecordAt(p).ticker.val)) = k }
            IN  /\ \A p \in hits : cache[k] = CellOf(p)
                /\ hits = {} => cache[k] = cache0[k]

\* a successful run of two chunks of one ticker each, the second chunk
\* completed first: the entries were returned and published in that order,
\* one per batch
C20_Witness ==
    /\ RunSucceeded
    /\ TickersDistinct
    /\ Len(tasks) = 2
    /\ doneq = <<2, 1>>
    /\ Len(pl_entries) = 2
    /\ pl_entries[1].ticker = <<"B">>
    /\ pl_entries[2].ticker = <<"A">>
    /\ Len(pipereqs) = 2
    /\ pipereqs[1][1][2] = CacheKey(redis_key_prefix, <<"B">>)

----------------------------------------------------------------------------
(* Claims about the derivation of collect_daily_pl, under SpecDerive *)

\* a field value that is absent or no number: nothing, a string that spells
\* no number, the empty string, an object
NonNumeric(v) ==
    v \in { NoNum, StrV(<<"b", "a", "d">>), StrV(<<>>),
            [kind |-> "dict", val |-> <<>>] }

\* the ticker field is missing, empty or not a string
TickerUnusable(snap) ==
    \/ snap.ticker.kind # "str"
    \/ Len(snap.ticker.val) = 0

TickerUsable(snap) == ~TickerUnusable(snap)

\* the records of the snapshot list that are not dropped, in input order
KeptRecords == SelectSeq(fret.val, TickerUsable)

\* the derivation has run
Derived == epc \in {"publish", "failed"}

\* C15: the derivation raises on no record whose daily-change,
\* daily-change-percent and minute-close fields are absent or non-numeric
\* (it raises only on an integer beyond the range of float); the entries
\* are the records with a usable ticker, one entry per record, in input
\* order, duplicates kept, and a field whose value is absent or non-numeric
\* is null in the entry
C15_DerivationTotalOnNonNumeric ==
    Derived =>
        /\ epc = "failed" =>
              \E i \in DOMAIN KeptRecords :
                  \/ KeptRecords[i].todaysChange.kind = "bigint"
                  \/ KeptRecords[i].todaysChangePerc.kind = "bigint"
                  \/ KeptRecords[i].min.c.kind = "bigint"
        /\ epc = "publish" =>
              /\ Len(pl_entries) = Len(KeptRecords)
              /\ \A i \in DOMAIN KeptRecords :
                    /\ pl_entries[i].ticker = UpperStr(KeptRecords[i].ticker.val)
                    /\ NonNumeric(KeptRecords[i].todaysChange) =>
                          pl_entries[i].daily_pl = NoNum
                    /\ NonNumeric(KeptRecords[i].todaysChangePerc) =>
                          pl_entries[i].daily_pl_percent = NoNum
                    /\ (KeptRecords[i].min.kind # "dict"
                          \/ NonNumeric(KeptRecords[i].min.c)) =>
                          pl_entries[i].min_close = NoNum
                    /\ KeptRecords[i].todaysChange = SomeNum(1) =>
                          pl_entries[i].daily_pl = SomeNum(1)

\* two records of the same ticker went in, the first with an object for
\* its daily change, the second with a minute bar whose close is no
\* number: two entries came out, in that order, with null in those fields
C15_Witness ==
    /\ epc = "publish"
    /\ Len(fret.val) = 2
    /\ fret.val[1].todaysChange = [kind |-> "dict", val |-> <<>>]
    /\ fret.val[2].min = [kind |-> "dict", c |-> StrV(<<"b", "a", "d">>)]
    /\ Len(pl_entries) = 2
    /\ pl_entries[1].ticker = pl_entries[2].ticker
    /\ pl_entries[1].daily_pl = NoNum
    /\ pl_entries[1].daily_pl_percent = NoNum
    /\ pl_entries[2].min_close = NoNum
    /\ pl_entries[2].daily_pl = SomeNum(1)

====
